---- MODULE Spec2Model ----
(***************************************************************************)
(* BotHost API (src/main.py): the container lifecycle handlers             *)
(* create_bot / list_bots / get_bot / delete_bot / restart_bot over the    *)
(* "bots" table and the Docker backend.                                    *)
(*                                                                         *)
(* Each request is served by a worker; a handler is cut into steps at the  *)
(* points where it touches shared state (a database query or commit, the   *)
(* artifact directory, a Docker call), so that handlers of different       *)
(* workers interleave at exactly those points (several server processes    *)
(* over the one database file and the one Docker daemon); the runs in      *)
(* which each handler runs to its end before the next starts are among     *)
(* them.  The Docker daemon is modelled by its contract: a launch is       *)
(* refused when the container name is taken or the host port is bound by   *)
(* a running container, any call may fail, and a container stays running   *)
(* until it is stopped through the API.                                    *)
(***************************************************************************)
EXTENDS Integers, Sequences, FiniteSets, TLC

(* ------------------------------ bounds -------------------------------- *)

\* create calls admitted past the name check over one behaviour
MaxCreates == 2

\* request workers and request inputs
Workers == {"w1", "w2"}
Names   == {"alpha", "beta"}
Users   == {"u1", "u2"}
Tokens  == {"tok1", "tok2"}
\* the credential sent with a name by an owner: each name is requested with
\* both credentials and by both owners, each owner sends both credentials
TokenOf(name, user) ==
    IF (name = "alpha") = (user = "u1") THEN "tok1" ELSE "tok2"
Ids     == 1 .. MaxCreates

(* ------------------------- program constants -------------------------- *)

BASE_DOMAIN == "bothost.local"
PORT_START  == 5001

\* names bound in the module's global namespace (imports, assignments, defs)
ModuleGlobals ==
    { "FastAPI", "HTTPException", "Depends", "CORSMiddleware", "BaseModel",
      "create_engine", "Column", "String", "Integer", "DateTime",
      "declarative_base", "sessionmaker", "Session", "docker", "os", "secrets",
      "string", "datetime", "subprocess",
      "DATABASE_URL", "DOCKER_IMAGE", "BASE_DOMAIN", "PORT_START", "app",
      "engine", "SessionLocal", "Base", "get_db", "BotModel",
      "CreateBotRequest", "BotResponse", "generate_random_string",
      "get_next_available_port", "create_bot_code", "create_bot", "list_bots",
      "get_bot", "delete_bot", "restart_bot", "health" }

(* ------------------------------- state -------------------------------- *)

VARIABLES
    rows,        \* the "bots" table: a set of BotModel rows
    containers,  \* the Docker backend: a set of containers
    files,       \* /tmp/bots/<name>: the artifacts written per name
    ncid,        \* container ids issued by the backend so far
    ncreate,     \* create calls admitted so far
    created,     \* history: every row ever inserted, in insertion order
    pc,          \* per worker: position in the handler it runs, idle between requests
    req,         \* per worker: the request it serves
    loc,         \* per worker: the handler's local variables
    resp         \* the response sent last, with the request it answers and the
                 \* outcome of the backend calls made for it (env)

vars == <<rows, containers, files, ncid, ncreate, created, pc, req, loc, resp>>

\* the absent row (None) and the absent container id (NULL)
NULL == 0

None ==
    [id |-> NULL, name |-> "", token |-> "", user_id |-> "", port |-> NULL,
     container_id |-> NULL, webhook_url |-> "", is_running |-> 0]

NoReq == [op |-> "none", name |-> "", token |-> "", user_id |-> "", id |-> NULL]

NoLoc == [port |-> NULL, webhook_url |-> "", container_id |-> NULL, bot |-> None]

NoResp ==
    [req |-> NoReq, status |-> 0, detail |-> "", body |-> {}, env |-> "none"]

NoFile == [bot_server |-> [TOKEN |-> "", WEBHOOK_URL |-> ""], requirements |-> ""]

REQUIREMENTS == "python-telegram-bot==20.7 flask==3.0.0 requests==2.31.0 sqlalchemy==2.0.0"

(* ----------------------------- utilities ------------------------------ *)

Max(S) == CHOOSE x \in S : \A y \in S : y <= x

\* db.query(BotModel).filter(BotModel.name == name).first()
find_by_name(name) ==
    IF \E r \in rows : r.name = name
    THEN CHOOSE r \in rows : r.name = name
    ELSE None

\* db.query(BotModel).filter(BotModel.id == bot_id).first()
find_by_id(bot_id) ==
    IF \E r \in rows : r.id = bot_id
    THEN CHOOSE r \in rows : r.id = bot_id
    ELSE None

FindAllRows(user_id) == rows

\* db.query(BotModel).filter(BotModel.user_id == user_id).all()
find_by_owner(user_id) == {r \in rows : r.user_id = user_id}

PortMinusOne ==
    IF rows # {} THEN Max({r.port : r \in rows}) - 1 ELSE PORT_START

PortNotIncremented ==
    IF rows # {} THEN Max({r.port : r \in rows}) ELSE PORT_START

\* the row with the highest port, plus one; PORT_START on an empty table
get_next_available_port ==
    IF rows # {} THEN Max({r.port : r \in rows}) + 1 ELSE PORT_START

WebhookUrlWithoutPath(name) == "https://" \o name \o "." \o BASE_DOMAIN

\* f"https://{req.name}.{BASE_DOMAIN}/webhook"
webhook_url_of(name) == "https://" \o name \o "." \o BASE_DOMAIN \o "/webhook"

\* the worker program: a fixed template with two interpolated values
create_bot_code(token, webhook_url) == [TOKEN |-> token, WEBHOOK_URL |-> webhook_url]

\* INTEGER PRIMARY KEY of SQLite: the highest rowid in the table plus one
next_rowid == IF rows # {} THEN Max({r.id : r \in rows}) + 1 ELSE 1

(* --------------------------- Docker backend --------------------------- *)

\* a container name is taken by any container that exists, running or not
NameTaken(name) == \E c \in containers : c.name = name

\* a host port is bound by a running container
PortBound(port) == \E c \in containers : c.status = "running" /\ c.port = port

ContainerOf(cid) == CHOOSE c \in containers : c.id = cid

Exists(cid) == \E c \in containers : c.id = cid

SetStatus(cid, s) ==
    {IF c.id = cid THEN [c EXCEPT !.status = s] ELSE c : c \in containers}

(* ----------------------------- handlers ------------------------------- *)

\* the handler of worker w returns or raises: the response goes out
Finish(w, r, status, detail, body, env) ==
    /\ pc' = [pc EXCEPT ![w] = "idle"]
    /\ req' = [req EXCEPT ![w] = NoReq]
    /\ loc' = [loc EXCEPT ![w] = NoLoc]
    /\ resp' = [req |-> r, status |-> status, detail |-> detail, body |-> body,
                env |-> env]

\* the handler of worker w goes on to its next step
Goto(w, label) ==
    /\ pc' = [pc EXCEPT ![w] = label]
    /\ UNCHANGED resp

Init ==
    /\ rows = {}
    /\ containers = {}
    /\ files = [n \in Names |-> NoFile]
    /\ ncid = 0
    /\ ncreate = 0
    /\ created = <<>>
    /\ pc = [w \in Workers |-> "idle"]
    /\ req = [w \in Workers |-> NoReq]
    /\ loc = [w \in Workers |-> NoLoc]
    /\ resp = NoResp

(* ------------------------------ create_bot ---------------------------- *)

CreateRequest(name, token, user) ==
    [op |-> "create", name |-> name, token |-> token, user_id |-> user, id |-> NULL]

NameCheckSkipped(name) == FALSE

\* existing = db.query(BotModel).filter(BotModel.name == req.name).first()
NameCheck(name) == find_by_name(name) # None

\* the existence check: 400 when the name is on record
CreateBegin(w) ==
    /\ pc[w] = "idle"
    /\ \E name \in Names, user \in Users : \E token \in {TokenOf(name, user)} :
         IF NameCheck(name)
         THEN /\ Finish(w, CreateRequest(name, token, user), 400, "DuplicateName",
                        {}, "none")
              /\ UNCHANGED ncreate
         ELSE /\ ncreate < MaxCreates
              /\ ncreate' = ncreate + 1
              /\ req' = [req EXCEPT ![w] = CreateRequest(name, token, user)]
              /\ Goto(w, "alloc")
              /\ UNCHANGED loc
    /\ UNCHANGED <<rows, containers, files, ncid, created>>

\* port = get_next_available_port(db); webhook_url = f"https://..."
\* os.makedirs(bot_dir, exist_ok=True); bot_server.py and requirements.txt written
\* (one step: the read of the table is the only access to state that other
\* handlers change, the files are written from the handler's own values)
CreateAlloc(w) ==
    /\ pc[w] = "alloc"
    /\ LET port == get_next_available_port
           webhook_url == webhook_url_of(req[w].name)
           bot_code == create_bot_code(req[w].token, webhook_url)
       IN /\ loc' = [loc EXCEPT ![w].port = port, ![w].webhook_url = webhook_url]
          /\ files' = [files EXCEPT ![req[w].name] =
                          [bot_server |-> bot_code, requirements |-> REQUIREMENTS]]
    /\ Goto(w, "launch")
    /\ UNCHANGED <<rows, containers, ncid, ncreate, created, req>>

LaunchFailedIgnored(w) ==
    /\ Goto(w, "insert")
    /\ UNCHANGED <<req, loc>>

\* except Exception as e: raise HTTPException(status_code=500, ...)
LaunchFailed(w) == Finish(w, req[w], 500, "Docker", {}, "none")

\* client.containers.run(..., ports={'5000/tcp': port}, detach=True, name=f"bot-{name}")
CreateLaunch(w) ==
    /\ pc[w] = "launch"
    /\ \/ \* the backend refuses (unreachable, name conflict, no image): nothing made
          /\ LaunchFailed(w)
          /\ UNCHANGED <<containers, ncid>>
       \/ \* the container is made but does not start (host port bound, or other)
          /\ ~NameTaken(req[w].name)
          /\ containers' = containers \cup
                 {[id |-> ncid + 1, name |-> req[w].name, port |-> loc[w].port,
                   status |-> "created"]}
          /\ ncid' = ncid + 1
          /\ LaunchFailed(w)
       \/ \* the container is made and started
          /\ ~NameTaken(req[w].name)
          /\ ~PortBound(loc[w].port)
          /\ containers' = containers \cup
                 {[id |-> ncid + 1, name |-> req[w].name, port |-> loc[w].port,
                   status |-> "running"]}
          /\ ncid' = ncid + 1
          /\ loc' = [loc EXCEPT ![w].container_id = ncid + 1]
          /\ Goto(w, "insert")
          /\ UNCHANGED req
    /\ UNCHANGED <<rows, files, ncreate, created>>

NoUniqueConstraint(name) == FALSE

\* name = Column(String, unique=True, index=True)
UniqueViolation(name) == \E r \in rows : r.name = name

\* db_bot = BotModel(...); db.add(db_bot); db.commit(); db.refresh(db_bot)
CreateInsert(w) ==
    /\ pc[w] = "insert"
    /\ IF UniqueViolation(req[w].name)
       THEN \* IntegrityError leaves the handler: 500 Internal Server Error
            /\ Finish(w, req[w], 500, "Internal Server Error", {}, "none")
            /\ UNCHANGED <<rows, created>>
       ELSE LET db_bot == [id |-> next_rowid, name |-> req[w].name,
                           token |-> req[w].token, user_id |-> req[w].user_id,
                           port |-> loc[w].port,
                           container_id |-> loc[w].container_id,
                           webhook_url |-> loc[w].webhook_url, is_running |-> 1]
            IN /\ rows' = rows \cup {db_bot}
               /\ created' = Append(created, [id |-> db_bot.id, name |-> db_bot.name,
                                               port |-> db_bot.port, alive |-> TRUE])
               /\ Finish(w, req[w], 200, "created", {db_bot}, "none")
    /\ UNCHANGED <<containers, files, ncid, ncreate>>

(* ------------------------- list_bots / get_bot ------------------------ *)

IdRequest(op, bot_id) == [NoReq EXCEPT !.op = op, !.id = bot_id]

\* bots = db.query(BotModel).filter(BotModel.user_id == user_id).all()
list_bots(w) ==
    /\ pc[w] = "idle"
    /\ \E user \in Users :
         Finish(w, [NoReq EXCEPT !.op = "list", !.user_id = user], 200, "list",
                find_by_owner(user), "none")
    /\ UNCHANGED <<rows, containers, files, ncid, ncreate, created>>

\* the row, or 404
get_bot(w) ==
    /\ pc[w] = "idle"
    /\ \E bot_id \in Ids :
         IF find_by_id(bot_id) = None
         THEN Finish(w, IdRequest("get", bot_id), 404, "NotFound", {}, "none")
         ELSE Finish(w, IdRequest("get", bot_id), 200, "get", {find_by_id(bot_id)},
                     "none")
    /\ UNCHANGED <<rows, containers, files, ncid, ncreate, created>>

(* ------------------------------ delete_bot ---------------------------- *)

\* bot = db.query(BotModel).filter(BotModel.id == bot_id).first(); 404 if not bot
DeleteBegin(w) ==
    /\ pc[w] = "idle"
    /\ \E bot_id \in Ids :
         IF find_by_id(bot_id) = None
         THEN Finish(w, IdRequest("delete", bot_id), 404, "NotFound", {}, "none")
         ELSE /\ req' = [req EXCEPT ![w] = IdRequest("delete", bot_id)]
              /\ loc' = [loc EXCEPT ![w].bot = find_by_id(bot_id)]
              /\ Goto(w, "stop")
    /\ UNCHANGED <<rows, containers, files, ncid, ncreate, created>>

\* except Exception as e: logger.error(...)
\* the handler reads the global name logger: NameError when it is not bound
TeardownFailed(w) ==
    IF "logger" \in ModuleGlobals
    THEN /\ Goto(w, "dbdelete_after_error")
         /\ UNCHANGED <<req, loc>>
    ELSE Finish(w, req[w], 500, "Internal Server Error", {}, "failed")

\* client = docker.from_env(); container = client.containers.get(...); container.stop()
DeleteStop(w) ==
    /\ pc[w] = "stop"
    /\ \/ /\ Exists(loc[w].bot.container_id)
          /\ containers' =
                IF ContainerOf(loc[w].bot.container_id).status = "running"
                THEN SetStatus(loc[w].bot.container_id, "exited")
                ELSE containers
          /\ Goto(w, "remove")
          /\ UNCHANGED <<req, loc>>
       \/ \* the lookup or the stop raises
          /\ TeardownFailed(w)
          /\ UNCHANGED containers
    /\ UNCHANGED <<rows, files, ncid, ncreate, created>>

\* container.remove()
DeleteRemove(w) ==
    /\ pc[w] = "remove"
    /\ \/ /\ Exists(loc[w].bot.container_id)
          /\ ContainerOf(loc[w].bot.container_id).status # "running"
          /\ containers' = containers \ {ContainerOf(loc[w].bot.container_id)}
          /\ Goto(w, "dbdelete")
          /\ UNCHANGED <<req, loc>>
       \/ \* the remove raises
          /\ TeardownFailed(w)
          /\ UNCHANGED containers
    /\ UNCHANGED <<rows, files, ncid, ncreate, created>>

DeleteRowAll(w) ==
    /\ pc[w] \in {"dbdelete", "dbdelete_after_error"}
    /\ rows' = {}
    /\ created' = [i \in DOMAIN created |-> [created[i] EXCEPT !.alive = FALSE]]
    /\ Finish(w, req[w], 200, "deleted", {},
              IF pc[w] = "dbdelete" THEN "ok" ELSE "failed")
    /\ UNCHANGED <<containers, files, ncid, ncreate>>

\* db.delete(bot); db.commit(): DELETE FROM bots WHERE bots.id = <bot.id>
DeleteRow(w) ==
    /\ pc[w] \in {"dbdelete", "dbdelete_after_error"}
    /\ rows' = {r \in rows : r.id # loc[w].bot.id}
    /\ created' = [i \in DOMAIN created |->
                     IF created[i].alive /\ created[i].id = loc[w].bot.id
                     THEN [created[i] EXCEPT !.alive = FALSE]
                     ELSE created[i]]
    /\ Finish(w, req[w], 200, "deleted", {},
              IF pc[w] = "dbdelete" THEN "ok" ELSE "failed")
    /\ UNCHANGED <<containers, files, ncid, ncreate>>

(* ----------------------------- restart_bot ---------------------------- *)

RestartCheckSkipped(bot_id) == FALSE

\* if not bot: raise HTTPException(status_code=404, ...)
RestartNotFound(bot_id) == find_by_id(bot_id) = None

\* bot = db.query(BotModel).filter(BotModel.id == bot_id).first(); 404 if not bot
RestartBegin(w) ==
    /\ pc[w] = "idle"
    /\ \E bot_id \in Ids :
         IF RestartNotFound(bot_id)
         THEN Finish(w, IdRequest("restart", bot_id), 404, "NotFound", {}, "none")
         ELSE /\ req' = [req EXCEPT ![w] = IdRequest("restart", bot_id)]
              /\ loc' = [loc EXCEPT ![w].bot = find_by_id(bot_id)]
              /\ Goto(w, "restart")
    /\ UNCHANGED <<rows, containers, files, ncid, ncreate, created>>

RestartFailedSwallowed(w) == Finish(w, req[w], 200, "restarted", {}, "failed")

\* except Exception as e: raise HTTPException(status_code=500, ...)
RestartFailed(w) == Finish(w, req[w], 500, "Docker", {}, "failed")

RestartEnvUpdatesStatus(w) ==
    /\ pc[w] = "restart"
    /\ \/ /\ Exists(loc[w].bot.container_id)
          /\ \/ ContainerOf(loc[w].bot.container_id).status = "running"
             \/ ~PortBound(ContainerOf(loc[w].bot.container_id).port)
          /\ containers' = SetStatus(loc[w].bot.container_id, "running")
          /\ Finish(w, req[w], 200, "restarted", {}, "ok")
          /\ UNCHANGED rows
       \/ /\ RestartFailed(w)
          /\ rows' = {IF r.id = loc[w].bot.id THEN [r EXCEPT !.is_running = 0] ELSE r :
                         r \in rows}
          /\ UNCHANGED containers
    /\ UNCHANGED <<files, ncid, ncreate, created>>

\* client = docker.from_env(); container = client.containers.get(...); container.restart()
RestartEnv(w) ==
    /\ pc[w] = "restart"
    /\ \/ /\ Exists(loc[w].bot.container_id)
          /\ \/ ContainerOf(loc[w].bot.container_id).status = "running"
             \/ ~PortBound(ContainerOf(loc[w].bot.container_id).port)
          /\ containers' = SetStatus(loc[w].bot.container_id, "running")
          /\ Finish(w, req[w], 200, "restarted", {}, "ok")
       \/ \* the lookup or the restart raises
          /\ RestartFailed(w)
          /\ UNCHANGED containers
    /\ UNCHANGED <<rows, files, ncid, ncreate, created>>

(* ------------------------------ scheduling ---------------------------- *)

Create(w) ==
    \/ CreateBegin(w)
    \/ CreateAlloc(w)
    \/ CreateLaunch(w)
    \/ CreateInsert(w)

Delete(w) ==
    \/ DeleteBegin(w)
    \/ DeleteStop(w)
    \/ DeleteRemove(w)
    \/ DeleteRow(w)

Restart(w) ==
    \/ RestartBegin(w)
    \/ RestartEnv(w)

Next ==
    \E w \in Workers :
        \/ Create(w)
        \/ Delete(w)
        \/ Restart(w)
        \/ list_bots(w)
        \/ get_bot(w)

Spec == Init /\ [][Next]_vars

\* create calls only, interleaved
NextCreate == \E w \in Workers : Create(w)

SpecCreate == Init /\ [][NextCreate]_vars

\* one request at a time: a handler runs to its end before the next starts
\* (the handlers are coroutines without an await, served by one event loop)
NextSeq ==
    \E w \in Workers :
        /\ \A v \in Workers \ {w} : pc[v] = "idle"
        /\ \/ Create(w)
           \/ Delete(w)
           \/ Restart(w)
           \/ list_bots(w)
           \/ get_bot(w)

SpecSeq == Init /\ [][NextSeq]_vars

(* ------------------------------ properties ---------------------------- *)

NameOnRecord(name) == \E r \in rows : r.name = name

\* a step in which a whole handler ran: no worker changed position
AtomicStep == pc' = pc

\* C1: a delete(id) on an existing row whose environment teardown fails still
\* answers success and removes the row, so that get(id) then fails NotFound.
C1_DeleteSucceedsWhenTeardownFails ==
    (resp.req.op = "delete" /\ resp.env = "failed")
        => (resp.status = 200 /\ find_by_id(resp.req.id) = None)

\* the launch step of worker w ends without a started container
LaunchStepFails(w) ==
    /\ pc[w] = "launch"
    /\ pc'[w] # "launch"
    /\ ~ \E c \in containers' \ containers : c.status = "running"

\* C2: a create whose environment launch fails answers 500 (Docker error) and
\* inserts no row: the launch step ends the handler and leaves the table as it was.
C2_FailedLaunchInsertsNoRow ==
    [][\A w \in Workers :
          LaunchStepFails(w)
              => /\ pc'[w] = "idle"
                 /\ resp'.req = req[w]
                 /\ resp'.status = 500
                 /\ resp'.detail = "Docker"
                 /\ rows' = rows
                 /\ created' = created]_vars

C2_Witness ==
    /\ resp.req.op = "create"
    /\ resp.status = 500
    /\ resp.detail = "Docker"
    /\ rows # {}
    /\ ~NameOnRecord(resp.req.name)

\* C3: a create whose name is on record answers 400 DuplicateName and changes
\* nothing: no row, no port allocated, no artifact written, no container made;
\* and no create passes the check with a name that is on record.
C3_DuplicateNameLeavesRegistryUnchanged ==
    [][/\ (AtomicStep /\ resp'.req.op = "create")
            => /\ NameOnRecord(resp'.req.name)
               /\ resp'.status = 400
               /\ resp'.detail = "DuplicateName"
               /\ UNCHANGED <<rows, containers, files, ncid, ncreate, created, loc>>
       /\ \A w \in Workers :
            (pc[w] = "idle" /\ pc'[w] = "alloc") => ~NameOnRecord(req'[w].name)]_vars

C3_Witness ==
    /\ resp.req.op = "create"
    /\ resp.status = 400
    /\ NameOnRecord(resp.req.name)
    /\ Cardinality(rows) = 2

\* C4: over create calls alone, the ports of the inserted rows are strictly
\* increasing in the order of insertion, and no two rows hold the same port.
C4_PortsStrictlyIncreasing ==
    /\ \A i, j \in DOMAIN created : i < j => created[i].port < created[j].port
    /\ \A r1, r2 \in rows : r1.port = r2.port => r1 = r2

C4_Witness ==
    /\ Len(created) = 2
    /\ Cardinality(rows) = 2

\* C5: when a create reaches its launch with a port that a running container
\* already binds (two creates read the same maximum), the launch fails, the
\* create answers 500 and writes no row, the rows and containers that exist stay;
\* under any interleaving of creates no two rows share a port.
C5_PortCollisionFailsCleanly ==
    /\ [](\A r1, r2 \in rows : r1 # r2 => r1.port # r2.port)
    /\ [][\A w \in Workers :
            (pc[w] = "launch" /\ PortBound(loc[w].port) /\ pc'[w] # "launch")
                => /\ pc'[w] = "idle"
                   /\ resp'.req = req[w]
                   /\ resp'.status = 500
                   /\ rows' = rows
                   /\ containers \subseteq containers']_vars

C5_Witness ==
    /\ resp.req.op = "create"
    /\ resp.status = 500
    /\ \E c \in containers, r \in rows :
          /\ c.status = "created"
          /\ c.name = resp.req.name
          /\ r.port = c.port
          /\ r.name # c.name
          /\ \E d \in containers : d.id = r.container_id /\ d.status = "running"

\* C6: under any interleaving of creates with the same name, at most one row
\* holds a given name in every reachable state.
C6_AtMostOneRowPerName ==
    \A r1, r2 \in rows : r1.name = r2.name => r1 = r2

\* the unique constraint refused an insert that had passed the existence check
C6_Witness ==
    /\ resp.req.op = "create"
    /\ resp.status = 500
    /\ resp.detail = "Internal Server Error"
    /\ NameOnRecord(resp.req.name)

\* C7 as stated: no two instances that ever existed share a name.
C7_NamesUniqueOverHistory ==
    \A i, j \in DOMAIN created : i # j => created[i].name # created[j].name

\* C7 as amended: two instances share a name only when the earlier one was
\* deleted: names are unique among the rows on record, not over history.
C7_NameReusedOnlyAfterDelete ==
    \A i, j \in DOMAIN created :
        (i < j /\ created[i].name = created[j].name) => ~created[i].alive

C7_Witness ==
    \E i, j \in DOMAIN created :
        i < j /\ created[i].name = created[j].name /\ created[j].alive

\* C8 as stated: a port assigned to an instance is never assigned to a later one.
C8_PortsNeverReassigned ==
    \A i, j \in DOMAIN created : i # j => created[i].port # created[j].port

\* C8 as amended: a create is assigned a port above the port of every row on
\* record when the port is allocated (and never below the base port); a port of
\* a deleted instance is assigned again once no row holds it or a higher one.
C8_PortAboveEveryRowOnRecord ==
    [][\A w \in Workers :
          (pc[w] = "alloc" /\ pc'[w] = "launch")
              => /\ loc'[w].port >= PORT_START
                 /\ \A r \in rows : loc'[w].port > r.port
                 /\ (rows = {} => loc'[w].port = PORT_START)]_vars

C8_Witness ==
    \E i, j \in DOMAIN created :
        i < j /\ created[i].port = created[j].port /\ ~created[i].alive
              /\ created[j].alive

\* C9: a restart of an id with no row answers 404 and changes nothing: no
\* backend call is made and the table is as it was.
C9_RestartUnknownIdHasNoEffect ==
    [][/\ (AtomicStep /\ resp'.req.op = "restart")
            => /\ find_by_id(resp'.req.id) = None
               /\ resp'.status = 404
               /\ resp'.env = "none"
               /\ UNCHANGED <<rows, containers, files, ncid, ncreate, created, loc>>
       /\ \A w \in Workers :
            (pc[w] = "idle" /\ pc'[w] = "restart")
                => find_by_id(req'[w].id) # None]_vars

C9_Witness ==
    /\ resp.req.op = "restart"
    /\ resp.status = 404
    /\ rows # {}
    /\ containers # {}

\* C10: a restart of an existing id whose environment cannot be restarted
\* answers an error (500), a restart that worked answers 200, and in both cases
\* the restart leaves every row as it was.
C10_RestartFailureSurfacesRowsKept ==
    [][\A w \in Workers :
          (pc[w] = "restart" /\ pc'[w] # "restart")
              => /\ rows' = rows
                 /\ created' = created
                 /\ resp'.req = req[w]
                 /\ resp'.env \in {"ok", "failed"}
                 /\ (resp'.env = "failed" => resp'.status = 500)
                 /\ (resp'.env = "ok" => resp'.status = 200)
                 /\ (containers' # containers => resp'.env = "ok")]_vars

C10_Witness ==
    /\ resp.req.op = "restart"
    /\ resp.status = 500
    /\ resp.env = "failed"
    /\ find_by_id(resp.req.id) # None
    /\ find_by_id(resp.req.id).is_running = 1

\* the history of the end-to-end run: alpha inserted first, beta second
AlphaThenBeta ==
    /\ Len(created) = 2
    /\ created[1].name = "alpha"
    /\ created[2].name = "beta"

\* ... and alpha deleted after beta was inserted (beta got the next row id)
AlphaDeletedAfterBeta ==
    /\ AlphaThenBeta
    /\ created[2].id # created[1].id
    /\ ~created[1].alive
    /\ created[2].alive

\* C11: from an empty table, one request at a time: create(alpha,tok1,u1) gets
\* port 5001 and https://alpha.bothost.local/webhook, create(beta,tok2,u1) gets
\* port 5002, list(u1) returns both rows; after delete(alpha's id), get of that
\* id answers 404 and list(u1) returns beta alone.
C11_EndToEnd ==
    /\ (/\ resp.req = CreateRequest("alpha", "tok1", "u1")
        /\ resp.status = 200
        /\ Len(created) = 1)
           => /\ rows = resp.body
              /\ \A r \in rows :
                    /\ r.port = 5001
                    /\ r.name = "alpha"
                    /\ r.webhook_url = "https://alpha.bothost.local/webhook"
                    /\ created[1].id = r.id
    /\ (/\ resp.req = CreateRequest("beta", "tok2", "u1")
        /\ resp.status = 200
        /\ AlphaThenBeta
        /\ created[1].alive)
           => /\ resp.body \subseteq rows
              /\ Cardinality(rows) = 2
              /\ \A r \in resp.body : r.port = 5002 /\ r.name = "beta"
    /\ (/\ resp.req.op = "list"
        /\ resp.req.user_id = "u1"
        /\ AlphaThenBeta
        /\ created[1].alive /\ created[2].alive
        /\ \A r \in rows : r.user_id = "u1")
           => /\ resp.body = rows
              /\ {r.name : r \in resp.body} = {"alpha", "beta"}
              /\ {r.port : r \in resp.body} = {5001, 5002}
    /\ (/\ AlphaDeletedAfterBeta
        /\ resp.req = IdRequest("delete", created[1].id)
        /\ resp.status = 200)
           => /\ find_by_id(created[1].id) = None
              /\ {r.name : r \in rows} = {"beta"}
    /\ (/\ AlphaDeletedAfterBeta
        /\ resp.req = IdRequest("get", created[1].id))
           => resp.status = 404
    /\ (/\ resp.req.op = "list"
        /\ resp.req.user_id = "u1"
        /\ AlphaDeletedAfterBeta
        /\ \A r \in rows : r.user_id = "u1")
           => /\ resp.body = rows
              /\ {r.name : r \in resp.body} = {"beta"}
              /\ {r.port : r \in resp.body} = {5002}

\* the end of the run: alpha deleted, list(u1) answered with beta on port 5002
C11_Witness ==
    /\ resp.req.op = "list"
    /\ resp.req.user_id = "u1"
    /\ AlphaDeletedAfterBeta
    /\ created[1].port = 5001
    /\ \E r \in resp.body :
          r.name = "beta" /\ r.token = "tok2" /\ r.user_id = "u1" /\ r.port = 5002

\* C12: get_next_available_port reads the table and returns the highest port on
\* record plus one, or 5001 on an empty table; the step that calls it leaves the
\* table, the history and the backend as they were (no port is reserved).
C12_NextPortIsMaxPlusOne ==
    [][\A w \in Workers :
          (pc[w] = "alloc" /\ pc'[w] = "launch")
              => /\ IF rows = {}
                    THEN loc'[w].port = 5001
                    ELSE /\ \E r \in rows : loc'[w].port = r.port + 1
                         /\ \A r \in rows : r.port < loc'[w].port
                 /\ rows' = rows
                 /\ created' = created
                 /\ containers' = containers
                 /\ ncid' = ncid]_vars

\* a port was computed from a table holding a row, and nothing records it
C12_Witness ==
    \E w \in Workers :
        /\ pc[w] = "launch"
        /\ rows # {}
        /\ loc[w].port = 5002
        /\ \A r \in rows : r.port = 5001
        /\ \A c \in containers : c.port # 5002

\* C13: list(owner) answers with exactly the rows of that owner, every one of
\* them and no row of another owner, and changes no state.
C13_ListReturnsExactlyOwnersRows ==
    [][(AtomicStep /\ resp'.req.op = "list")
          => /\ resp'.status = 200
             /\ \A r \in rows : (r \in resp'.body) <=> (r.user_id = resp'.req.user_id)
             /\ resp'.body \subseteq rows
             /\ UNCHANGED <<rows, containers, files, ncid, created>>]_vars

\* a list answered with a row while a row of another owner is on record
C13_Witness ==
    /\ resp.req.op = "list"
    /\ resp.body # {}
    /\ resp.body \subseteq rows
    /\ \E r \in rows : r.user_id # resp.req.user_id

\* C14: every row on record was inserted after a launch that succeeded: it holds
\* the id of a container the backend issued (not NULL), its status is running,
\* and its callback URL is "https://" + name + ".bothost.local/webhook".
C14_RowsInsertedAfterLaunch ==
    \A r \in rows :
        /\ r.container_id # NULL
        /\ r.container_id \in 1 .. ncid
        /\ r.is_running = 1
        /\ r.webhook_url = "https://" \o r.name \o ".bothost.local/webhook"

\* two rows on record, each with the container of its own launch
C14_Witness ==
    /\ Cardinality(rows) = 2
    /\ \A r \in rows : \E c \in containers : c.id = r.container_id /\ c.name = r.name

\* C15 as stated: for every id, the row with that id holds the same values in
\* every state in which it exists (over the history of inserted rows: two
\* insertions under one id are insertions of the same values).
C15_SameValuesForAnIdOverHistory ==
    \A i, j \in DOMAIN created :
        created[i].id = created[j].id
            => (created[i].name = created[j].name /\ created[i].port = created[j].port)

\* C15 amended: no step changes a field of a row on record: a row with the id of
\* a row of the state before is that row, with all its values, until it is
\* removed (the table then gives the id to a later row); the stored status is
\* running in every state, also when the container is stopped or gone.
C15_RowNeverUpdated ==
    /\ [](\A r \in rows : r.is_running = 1)
    /\ [][\A r \in rows : \A r2 \in rows' : r2.id = r.id => r2 = r]_vars

\* a row on record with status running whose container is stopped or gone,
\* after a restart that failed
C15_Witness ==
    /\ resp.req.op = "restart"
    /\ resp.env = "failed"
    /\ \E r \in rows :
          /\ r.id = resp.req.id
          /\ r.is_running = 1
          /\ \/ ~Exists(r.container_id)
             \/ ContainerOf(r.container_id).status = "exited"

\* C16: in a delete of an existing id the stop is requested before the remove, a
\* stop that fails does not end the operation (it goes on to the removal of the
\* row), and the row is removed only by the handler's last step, after the
\* teardown was attempted.
C16_StopBeforeRemoveFailureNonFatal ==
    [][\A w \in Workers :
          /\ (pc[w] # "remove" /\ pc'[w] = "remove") => pc[w] = "stop"
          /\ (pc[w] = "stop" /\ pc'[w] # "stop")
                 => pc'[w] \in {"remove", "dbdelete", "dbdelete_after_error"}
          /\ (pc[w] \in {"stop", "remove"} /\ pc'[w] # pc[w])
                 => \A r \in rows : r.id = loc[w].bot.id => r \in rows']_vars

\* worker w takes a step of a delete it has begun
DeleteStepOf(w) ==
    /\ pc[w] \in {"stop", "remove", "dbdelete", "dbdelete_after_error"}
    /\ pc'[w] # pc[w]

\* C17: a delete(id) touches the targeted instance only: every row with another
\* id stays on record as it was, the row it removes is the row with that id, and
\* the stop and the remove act on the container whose id the deleted row stores,
\* never on a container that a row with another id stores.
C17_DeleteAffectsOnlyTarget ==
    [][\A w \in Workers :
          DeleteStepOf(w)
              => /\ \A r \in rows : r.id # req[w].id => r \in rows'
                 /\ \A r \in rows \ rows' : r = loc[w].bot
                 /\ rows' \subseteq rows
                 /\ \A c \in containers :
                       c.id # loc[w].bot.container_id => c \in containers'
                 /\ \A c \in containers \ containers' : \A r \in rows :
                       r.container_id = c.id => r.id = req[w].id
                 /\ \A c \in containers' : \E d \in containers : d.id = c.id]_vars

\* a delete went through, teardown included, beside another instance that is
\* on record with its container running
C17_Witness ==
    /\ resp.req.op = "delete"
    /\ resp.status = 200
    /\ resp.env = "ok"
    /\ \E r \in rows :
          /\ r.id # resp.req.id
          /\ Exists(r.container_id)
          /\ ContainerOf(r.container_id).status = "running"

\* no handler is in flight
Quiescent == \A w \in Workers : pc[w] = "idle"

\* the rows that store the id of container c
RowsOf(c) == {r \in rows : r.container_id = c.id}

\* C18 as stated: when no operation is in flight, every container in the backend
\* is referenced by exactly one row, and no two rows hold the same handle.
C18_NoOrphansWhenQuiescent ==
    Quiescent
        => /\ \A c \in containers : Cardinality(RowsOf(c)) = 1
           /\ \A r1, r2 \in rows : r1.container_id = r2.container_id => r1 = r2

\* C18 amended: no two rows hold the same handle, a container is referenced by
\* at most one row and then carries that row's name and port, and when no
\* operation is in flight the container of every row exists; a container that no
\* row references can remain (left by a launch that made the container without
\* starting it, or by a create whose insert was refused).
C18_HandlesUniqueRowsHaveContainers ==
    /\ \A r1, r2 \in rows : r1.container_id = r2.container_id => r1 = r2
    /\ \A c \in containers :
          /\ Cardinality(RowsOf(c)) <= 1
          /\ \A r \in RowsOf(c) : c.name = r.name /\ c.port = r.port
    /\ Quiescent => \A r \in rows : Exists(r.container_id)

\* no operation in flight, a row with its running container, and beside it a
\* container that no row references
C18_Witness ==
    /\ Quiescent
    /\ \E r \in rows :
          Exists(r.container_id) /\ ContainerOf(r.container_id).status = "running"
    /\ \E c \in containers : RowsOf(c) = {}

\* C19: for every row, the artifact directory named after the row's name holds
\* the worker program rendered from that row's own credential and callback URL;
\* no create with the same name overwrites it.
C19_ArtifactsRenderedFromOwnRow ==
    \A r \in rows :
        /\ files[r.name].bot_server.TOKEN = r.token
        /\ files[r.name].bot_server.WEBHOOK_URL = r.webhook_url

====
